---- MODULE Spec2Model ----
(***************************************************************************)
(* Model of the fixed-arity shims over the Redis module API               *)
(* (redis_mod_callable.c).  Every shim forwards to a variadic primitive   *)
(* of the module API; the primitives themselves are the environment: the  *)
(* model records each invocation of a primitive in `trace` and draws the  *)
(* primitive's result from the set of results it can produce.             *)
(***************************************************************************)
EXTENDS Integers, Sequences, FiniteSets

\* ---------------------------------------------------------------- bounds
MaxCtx    == 2   \* context handles 1..MaxCtx
MaxHandle == 2   \* non-null reply handles 1..MaxHandle
MaxInt    == 2   \* integer payloads -MaxInt..MaxInt (window of long long)
MaxPtr    == 2   \* non-null RedisModuleString pointers 1..MaxPtr
MaxKey    == 2   \* RedisModuleKey handles 1..MaxKey

\* ------------------------------------------- constants of redismodule.h
NULL                      == 0
REDISMODULE_OK            == 0
REDISMODULE_ERR           == 1
REDISMODULE_HASH_NONE     == 0
REDISMODULE_REPLY_INTEGER == 2
\* UNKNOWN(-1), STRING(0), ERROR(1), INTEGER(2), ARRAY(3), NULL(4)
ReplyTypes == {-1, 0, 1, 2, 3, 4}

\* ---------------------------------------------------------------- inputs
Ctxs       == 1..MaxCtx
CmdNames   == {"incr", "hlen"}
Strs       == {"k1", "k2"}
Payloads   == (0 - MaxInt)..MaxInt
StrPtrs    == 0..MaxPtr              \* 0 is the null pointer
KeyHandles == 1..MaxKey

\* The reply objects RedisModule_Call can hand back: the null handle (whose
\* type RedisModule_CallReplyType reports as UNKNOWN) or an object with a
\* type tag and the word RedisModule_CallReplyInteger would read.
Replies ==
    {[h |-> NULL, type |-> -1, val |-> 0]} \cup
    [h : 1..MaxHandle, type : ReplyTypes, val : Payloads]

VARIABLES
    pc,         \* "idle", a position inside RedisModuleCallable2_ReplyInteger, "done"
    fn,         \* the shim in progress or just returned
    args,       \* its arguments, in the order received
    trace,      \* invocations of module API primitives made by this call
    reply,      \* the reply object RedisModule_Call produced for this call
    resp,       \* local `resp` of RedisModuleCallable2_ReplyInteger
    reply_int,  \* local `reply_int`
    oldval,     \* local `oldval` of RedisModuleHash_Get
    stored,     \* values RedisModule_HashGet wrote through &oldval
    status,     \* result the hash primitive produced
    ret,        \* the value the shim returned
    prev        \* return value of the previous shim call (none: <<>>)

vars == <<pc, fn, args, trace, reply, resp, reply_int, oldval, stored,
          status, ret, prev>>

NoReply == [h |-> NULL, type |-> -1, val |-> 0]

\* ------------------------------------------------ primitive invocations
\* RedisModule_Call(ctx, cmdname, fmt, ...): fmt is the sequence of the
\* descriptor's characters, argv the variadic arguments in order.
RM_Call(ctx, cmdname, fmt, argv) ==
    [op |-> "RedisModule_Call", ctx |-> ctx, cmdname |-> cmdname,
     fmt |-> fmt, argv |-> argv]

RM_CallReplyType(h)    == [op |-> "RedisModule_CallReplyType", h |-> h]
RM_CallReplyInteger(h) == [op |-> "RedisModule_CallReplyInteger", h |-> h]
RM_FreeCallReply(h)    == [op |-> "RedisModule_FreeCallReply", h |-> h]

\* RedisModule_HashGet(key, flags, field, &out, ..., NULL)
RM_HashGet(key, flags, fields, term) ==
    [op |-> "RedisModule_HashGet", key |-> key, flags |-> flags,
     fields |-> fields, term |-> term]

\* RedisModule_HashSet(key, flags, field, value, ..., NULL)
RM_HashSet(key, flags, pairs, term) ==
    [op |-> "RedisModule_HashSet", key |-> key, flags |-> flags,
     pairs |-> pairs, term |-> term]

\* Number of invocations of primitive `op` made by the call in progress.
Count(op) == Cardinality({i \in DOMAIN trace : trace[i].op = op})

\* ------------------------------------------------------ forwarding shims
RedisModule_Callable2(ctx, cmdname, key, arg0) ==
    RM_Call(ctx, cmdname, <<"c", "c">>, <<key, arg0>>)

RedisModule_Call1(ctx, cmdname, key) ==
    RM_Call(ctx, cmdname, <<"c">>, <<key>>)

RedisModule_Call2(ctx, cmdname, key, arg0) ==
    RM_Call(ctx, cmdname, <<"c", "c">>, <<key, arg0>>)

\* Variant: the last two strings forwarded in the wrong order.
RedisModule_Call3_Swapped(ctx, cmdname, key, arg0, arg1) ==
    RM_Call(ctx, cmdname, <<"c", "c", "c">>, <<key, arg1, arg0>>)

RedisModule_Call3(ctx, cmdname, key, arg0, arg1) ==
    RM_Call(ctx, cmdname, <<"c", "c", "c">>, <<key, arg0, arg1>>)

RedisModule_CallKeys(ctx, arg0) ==
    RM_Call(ctx, "keys", <<"c">>, <<arg0>>)

\* Variant: the shim looks at the reply and turns an error reply into NULL.
ForwardReturn_Inspecting(r) == IF r.type = 1 THEN NULL ELSE r.h

\* What a forwarding shim returns, given the reply the primitive produced.
ForwardReturn(r) == r.h

\* A forwarding shim as one step: invoke the primitive, return its reply.
Forward(name, argv, call) ==
    /\ pc = "idle"
    /\ \E r \in Replies :
          /\ reply' = r
          /\ ret' = ForwardReturn(r)
    /\ fn' = name
    /\ args' = argv
    /\ trace' = <<call>>
    /\ pc' = "done"
    /\ UNCHANGED <<resp, reply_int, oldval, stored, status, prev>>

Call1 ==
    \E ctx \in Ctxs, cmdname \in CmdNames, key \in Strs :
        Forward("RedisModule_Call1", <<ctx, cmdname, key>>,
                RedisModule_Call1(ctx, cmdname, key))

Call2 ==
    \E ctx \in Ctxs, cmdname \in CmdNames, key \in Strs, arg0 \in Strs :
        Forward("RedisModule_Call2", <<ctx, cmdname, key, arg0>>,
                RedisModule_Call2(ctx, cmdname, key, arg0))

Call3 ==
    \E ctx \in Ctxs, cmdname \in CmdNames, key \in Strs, arg0 \in Strs,
       arg1 \in Strs :
        Forward("RedisModule_Call3", <<ctx, cmdname, key, arg0, arg1>>,
                RedisModule_Call3(ctx, cmdname, key, arg0, arg1))

CallKeys ==
    \E ctx \in Ctxs, arg0 \in Strs :
        Forward("RedisModule_CallKeys", <<ctx, arg0>>,
                RedisModule_CallKeys(ctx, arg0))

\* ------------------------------------ RedisModuleCallable2_ReplyInteger
\* resp = RedisModule_Callable2(ctx, cmdname, key, arg0);
ReplyInteger_Call ==
    /\ pc = "idle"
    /\ \E ctx \in Ctxs, cmdname \in CmdNames, key \in Strs, arg0 \in Strs :
          /\ args' = <<ctx, cmdname, key, arg0>>
          /\ trace' = <<RedisModule_Callable2(ctx, cmdname, key, arg0)>>
    /\ \E r \in Replies :
          /\ reply' = r
          /\ resp' = r.h
    /\ fn' = "RedisModuleCallable2_ReplyInteger"
    /\ pc' = "check"
    /\ UNCHANGED <<reply_int, oldval, stored, status, ret, prev>>

\* Variant: only an error reply is rejected.
IsIntegerReply_ErrorOnly(type) == type # 1

\* The test of line 38 on the type the primitive reports for the reply.
IsIntegerReply(type) == type = REDISMODULE_REPLY_INTEGER

\* if (RedisModule_CallReplyType(resp) != REDISMODULE_REPLY_INTEGER)
ReplyInteger_CheckType ==
    /\ pc = "check"
    /\ trace' = Append(trace, RM_CallReplyType(resp))
    /\ pc' = IF IsIntegerReply(reply.type) THEN "read" ELSE "fail"
    /\ UNCHANGED <<fn, args, reply, resp, reply_int, oldval, stored, status,
                   ret, prev>>

\* Variant: the failure branch returns without releasing the reply.
ReplyInteger_Fail_Leak ==
    /\ pc = "fail"
    /\ ret' = -1
    /\ pc' = "done"
    /\ UNCHANGED <<fn, args, trace, reply, resp, reply_int, oldval, stored,
                   status, prev>>

\* Variant: on a reply of unexpected type the command is issued once more.
ReplyInteger_Fail_Retry ==
    /\ pc = "fail"
    /\ IF Count("RedisModule_Call") < 2
       THEN /\ \E r \in Replies :
                  /\ reply' = r
                  /\ resp' = r.h
            /\ trace' = trace \o <<RM_FreeCallReply(resp), trace[1]>>
            /\ pc' = "check"
            /\ UNCHANGED ret
       ELSE /\ trace' = Append(trace, RM_FreeCallReply(resp))
            /\ resp' = NULL
            /\ reply' = reply
            /\ ret' = -1
            /\ pc' = "done"
    /\ UNCHANGED <<fn, args, reply_int, oldval, stored, status, prev>>

\* RedisModule_FreeCallReply(resp); resp = NULL; return -1;
ReplyInteger_Fail ==
    /\ pc = "fail"
    /\ trace' = Append(trace, RM_FreeCallReply(resp))
    /\ resp' = NULL
    /\ ret' = -1
    /\ pc' = "done"
    /\ UNCHANGED <<fn, args, reply, reply_int, oldval, stored, status, prev>>

\* Variant: a negative payload is taken for a failure.
ReplyInteger_Read_Clamped ==
    /\ pc = "read"
    /\ trace' = Append(trace, RM_CallReplyInteger(resp))
    /\ reply_int' = IF reply.val < 0 THEN -1 ELSE reply.val
    /\ pc' = "free"
    /\ UNCHANGED <<fn, args, reply, resp, oldval, stored, status, ret, prev>>

\* long long reply_int = RedisModule_CallReplyInteger(resp);
ReplyInteger_Read ==
    /\ pc = "read"
    /\ trace' = Append(trace, RM_CallReplyInteger(resp))
    /\ reply_int' = reply.val
    /\ pc' = "free"
    /\ UNCHANGED <<fn, args, reply, resp, oldval, stored, status, ret, prev>>

\* Variant: the success branch returns the sentinel instead of 0.
ReplyInteger_Return_ZeroAsSentinel ==
    /\ pc = "free"
    /\ trace' = Append(trace, RM_FreeCallReply(resp))
    /\ resp' = NULL
    /\ ret' = IF reply_int = 0 THEN -1 ELSE reply_int
    /\ pc' = "done"
    /\ UNCHANGED <<fn, args, reply, reply_int, oldval, stored, status, prev>>

\* RedisModule_FreeCallReply(resp); resp = NULL; return reply_int;
ReplyInteger_Return ==
    /\ pc = "free"
    /\ trace' = Append(trace, RM_FreeCallReply(resp))
    /\ resp' = NULL
    /\ ret' = reply_int
    /\ pc' = "done"
    /\ UNCHANGED <<fn, args, reply, reply_int, oldval, stored, status, prev>>

\* ------------------------------------------------------- hash accessors
RedisModuleHash_GetCall(key, field) ==
    RM_HashGet(key, REDISMODULE_HASH_NONE, <<field>>, NULL)

\* Variant: field and value passed in the wrong order.
RedisModuleHash_SetCall_Swapped(key, field, val) ==
    RM_HashSet(key, REDISMODULE_HASH_NONE, <<<<val, field>>>>, NULL)

RedisModuleHash_SetCall(key, field, val) ==
    RM_HashSet(key, REDISMODULE_HASH_NONE, <<<<field, val>>>>, NULL)

\* RedisModuleString *oldval;  (no initialiser: any pointer value)
\* RedisModule_HashGet(key, REDISMODULE_HASH_NONE, field, &oldval, NULL);
\* return oldval;
\* The primitive either succeeds and stores the field's value (NULL when
\* the field is absent) or fails and stores nothing.
Hash_Get ==
    /\ pc = "idle"
    /\ \E key \in KeyHandles, field \in StrPtrs \ {NULL} :
          /\ args' = <<key, field>>
          /\ trace' = <<RedisModuleHash_GetCall(key, field)>>
    /\ \E indeterminate \in StrPtrs, st \in {REDISMODULE_OK, REDISMODULE_ERR},
          v \in StrPtrs :
          /\ status' = st
          /\ stored' = IF st = REDISMODULE_OK THEN <<v>> ELSE <<>>
          /\ oldval' = IF st = REDISMODULE_OK THEN v ELSE indeterminate
    /\ ret' = oldval'
    /\ fn' = "RedisModuleHash_Get"
    /\ pc' = "done"
    /\ UNCHANGED <<reply, resp, reply_int, prev>>

\* What RedisModuleHash_Set returns, given the primitive's result.
Hash_SetReturn(st) == REDISMODULE_OK

\* RedisModule_HashSet(key, REDISMODULE_HASH_NONE, field, val, NULL);
\* return REDISMODULE_OK;
Hash_Set ==
    /\ pc = "idle"
    /\ \E key \in KeyHandles, field \in StrPtrs \ {NULL},
          val \in StrPtrs \ {NULL} :
          /\ args' = <<key, field, val>>
          /\ trace' = <<RedisModuleHash_SetCall(key, field, val)>>
    /\ \E st \in {REDISMODULE_OK, REDISMODULE_ERR} :
          /\ status' = st
          /\ ret' = Hash_SetReturn(st)
    /\ fn' = "RedisModuleHash_Set"
    /\ pc' = "done"
    /\ UNCHANGED <<reply, resp, reply_int, oldval, stored, prev>>

\* ------------------------------------------------------------ the caller
\* Control is back in the caller; nothing of the finished call is kept by
\* the shims (they have no static data).  `prev` remembers the value
\* returned, for stating independence from earlier calls.
Return ==
    /\ pc = "done"
    /\ pc' = "idle"
    /\ prev' = <<ret>>
    /\ fn' = "none"
    /\ args' = <<>>
    /\ trace' = <<>>
    /\ reply' = NoReply
    /\ resp' = NULL
    /\ reply_int' = 0
    /\ oldval' = NULL
    /\ stored' = <<>>
    /\ status' = REDISMODULE_OK
    /\ ret' = 0

Init ==
    /\ pc = "idle"
    /\ fn = "none"
    /\ args = <<>>
    /\ trace = <<>>
    /\ reply = NoReply
    /\ resp = NULL
    /\ reply_int = 0
    /\ oldval = NULL
    /\ stored = <<>>
    /\ status = REDISMODULE_OK
    /\ ret = 0
    /\ prev = <<>>

Next ==
    \/ Call1
    \/ Call2
    \/ Call3
    \/ CallKeys
    \/ ReplyInteger_Call
    \/ ReplyInteger_CheckType
    \/ ReplyInteger_Fail
    \/ ReplyInteger_Read
    \/ ReplyInteger_Return
    \/ Hash_Get
    \/ Hash_Set
    \/ Return

Spec == Init /\ [][Next]_vars

\* =============================================================== claims
RI == "RedisModuleCallable2_ReplyInteger"

Forwarders == {"RedisModule_Call1", "RedisModule_Call2", "RedisModule_Call3",
               "RedisModule_CallKeys"}

CallShims == Forwarders \cup {RI}

Returned(name) == pc = "done" /\ fn = name

\* C1: when the reply RedisModule_Call produced is not of integer type,
\* RedisModuleCallable2_ReplyInteger returns -1, having released that reply
\* and never having called RedisModule_CallReplyInteger on it.
C1_NonIntegerReleasedMinusOne ==
    (Returned(RI) /\ reply.type # REDISMODULE_REPLY_INTEGER) =>
        /\ ret = -1
        /\ trace[Len(trace)] = [op |-> "RedisModule_FreeCallReply", h |-> reply.h]
        /\ Count("RedisModule_CallReplyInteger") = 0

C1_Witness ==
    /\ Returned(RI)
    /\ reply.type = 1
    /\ reply.h # NULL
    /\ reply.val = 1
    /\ ret = -1

\* C2: when the reply is of integer type, the value returned is exactly the
\* reply's integer payload, negative values and 0 included.
C2_IntegerPayloadReturned ==
    (Returned(RI) /\ reply.type = REDISMODULE_REPLY_INTEGER) => ret = reply.val

C2_Witness ==
    /\ Returned(RI)
    /\ reply.type = REDISMODULE_REPLY_INTEGER
    /\ reply.val = 0 - MaxInt
    /\ ret = 0 - MaxInt

\* C3: on both paths of RedisModuleCallable2_ReplyInteger the reply obtained
\* from RedisModule_Call is released exactly once before the return (not
\* zero times, not twice, no other handle), and its type and payload are
\* read only before the release.
C3_ReleasedExactlyOnce ==
    (fn = RI) =>
        /\ \A i \in DOMAIN trace :
              trace[i].op = "RedisModule_FreeCallReply" =>
                  /\ trace[i].h = reply.h
                  /\ i = Len(trace)
        /\ \A i \in DOMAIN trace :
              trace[i].op \in {"RedisModule_CallReplyType",
                               "RedisModule_CallReplyInteger"} =>
                  /\ trace[i].h = reply.h
                  /\ \A j \in 1..i : trace[j].op # "RedisModule_FreeCallReply"
        /\ Count("RedisModule_FreeCallReply") = (IF pc = "done" THEN 1 ELSE 0)

C3_Witness ==
    /\ Returned(RI)
    /\ reply.h # NULL
    /\ Len(trace) = 4
    /\ trace[3] = [op |-> "RedisModule_CallReplyInteger", h |-> reply.h]
    /\ trace[4] = [op |-> "RedisModule_FreeCallReply", h |-> reply.h]

\* The invocation of RedisModule_Call the claim C4 documents for each shim,
\* written out from the shim's arguments in the order received.
Documented ==
    CASE fn = "RedisModule_Call1" ->
            [op |-> "RedisModule_Call", ctx |-> args[1], cmdname |-> args[2],
             fmt |-> <<"c">>, argv |-> <<args[3]>>]
      [] fn \in {"RedisModule_Call2", RI} ->
            [op |-> "RedisModule_Call", ctx |-> args[1], cmdname |-> args[2],
             fmt |-> <<"c", "c">>, argv |-> <<args[3], args[4]>>]
      [] fn = "RedisModule_Call3" ->
            [op |-> "RedisModule_Call", ctx |-> args[1], cmdname |-> args[2],
             fmt |-> <<"c", "c", "c">>, argv |-> <<args[3], args[4], args[5]>>]
      [] fn = "RedisModule_CallKeys" ->
            [op |-> "RedisModule_Call", ctx |-> args[1], cmdname |-> "keys",
             fmt |-> <<"c">>, argv |-> <<args[2]>>]

\* C4: each fixed-arity shim invokes RedisModule_Call with the caller's
\* context, the documented command name, a format descriptor holding exactly
\* one 'c' per forwarded string, and the strings in the order received.
C4_ForwardedFormatAndOrder ==
    (fn \in CallShims) =>
        /\ trace[1] = Documented
        /\ Len(trace[1].fmt) = Len(trace[1].argv)
        /\ \A i \in DOMAIN trace[1].fmt : trace[1].fmt[i] = "c"

C4_Witness ==
    /\ Returned("RedisModule_Call3")
    /\ args[3] = "k1" /\ args[4] = "k2" /\ args[5] = "k1"
    /\ trace[1].argv = <<"k1", "k2", "k1">>
    /\ trace[1].fmt = <<"c", "c", "c">>

\* C5: RedisModule_Call1/2/3 and RedisModule_CallKeys return exactly the
\* handle RedisModule_Call produced (null and error replies included) and
\* make no other call on it: its type is not read and it is not released.
C5_ReplyReturnedUntouched ==
    (pc = "done" /\ fn \in Forwarders) =>
        /\ ret = reply.h
        /\ Len(trace) = 1
        /\ Count("RedisModule_FreeCallReply") = 0
        /\ Count("RedisModule_CallReplyType") = 0

C5_Witness ==
    /\ Returned("RedisModule_Call2")
    /\ reply.type = 1
    /\ reply.h = MaxHandle
    /\ ret = MaxHandle

\* C6: RedisModuleHash_Get and RedisModuleHash_Set each call the hash
\* primitive once, with the caller's key, REDISMODULE_HASH_NONE and the one
\* field (field/value pair) received, followed by the terminating NULL.
C6_HashSingleFieldDefaultFlag ==
    /\ Returned("RedisModuleHash_Get") =>
          trace = <<[op |-> "RedisModule_HashGet", key |-> args[1],
                     flags |-> REDISMODULE_HASH_NONE,
                     fields |-> <<args[2]>>, term |-> NULL]>>
    /\ Returned("RedisModuleHash_Set") =>
          trace = <<[op |-> "RedisModule_HashSet", key |-> args[1],
                     flags |-> REDISMODULE_HASH_NONE,
                     pairs |-> <<<<args[2], args[3]>>>>, term |-> NULL]>>

C6_Witness ==
    /\ Returned("RedisModuleHash_Set")
    /\ args = <<MaxKey, 1, MaxPtr>>
    /\ trace[1].pairs = <<<<1, MaxPtr>>>>

\* C7: every shim but the integer accessor hands the primitive's result to
\* its caller: the forwarders return the reply handle, and the value
\* RedisModuleHash_Set returns is the result RedisModule_HashSet produced.
C7_ResultPropagated ==
    /\ (pc = "done" /\ fn \in Forwarders) => ret = reply.h
    /\ Returned("RedisModuleHash_Set") => ret = status

\* C8: a call shim invokes RedisModule_Call exactly once per invocation
\* (also on an error or unexpected reply), and both that invocation and the
\* value returned are determined by the call's own arguments and reply,
\* whatever an earlier call returned.
C8_SingleShotStateless ==
    (pc = "done" /\ fn \in CallShims) =>
        /\ Count("RedisModule_Call") = 1
        /\ trace[1] = Documented
        /\ ret = (IF fn # RI THEN reply.h
                  ELSE IF reply.type = REDISMODULE_REPLY_INTEGER
                       THEN reply.val ELSE -1)

C8_Witness ==
    /\ Returned(RI)
    /\ reply.type = 1
    /\ prev = <<MaxInt>>
    /\ ret = -1
    /\ Count("RedisModule_Call") = 1

\* C9 as stated: whenever RedisModuleCallable2_ReplyInteger returns -1, the
\* reply was not of integer type.
C9_SentinelIdentifiesFailure ==
    (Returned(RI) /\ ret = -1) => reply.type # REDISMODULE_REPLY_INTEGER

\* C9 amended: a return of -1 comes from a reply that is not of integer
\* type or from an integer reply whose payload is -1; any other return value
\* comes from an integer reply.
C9_SentinelOrMinusOnePayload ==
    Returned(RI) =>
        /\ ret = -1 =>
              \/ reply.type # REDISMODULE_REPLY_INTEGER
              \/ reply.val = -1
        /\ ret # -1 => reply.type = REDISMODULE_REPLY_INTEGER

C9_Witness ==
    /\ Returned(RI)
    /\ reply.type = REDISMODULE_REPLY_INTEGER
    /\ reply.val = -1
    /\ ret = -1

\* C10: the value RedisModuleHash_Get returns is a value RedisModule_HashGet
\* stored through the output pointer during that call.
C10_HashGetReturnsStoredValue ==
    Returned("RedisModuleHash_Get") =>
        /\ Len(stored) = 1
        /\ ret = stored[1]

====
